---- MODULE Spec2Model ----
(***************************************************************************)
(* Model of tutorials/circuits_advanced/12_pulse_simulator_backend_model   *)
(* .ipynb: a Jupyter notebook whose code cells drive an external pulse     *)
(* simulation library.  The state is the kernel's namespace, the mock      *)
(* backend object the notebook mutates, the cell outputs and the position  *)
(* of the kernel inside the cell it is executing.  Cells are named by      *)
(* their index in the notebook's "cells" array (markdown cells included),  *)
(* statements by their position inside the cell.                           *)
(*                                                                         *)
(* External library calls are uninterpreted: a call returns a record that  *)
(* carries the arguments it was given, or it raises.                       *)
(***************************************************************************)
EXTENDS Integers, Sequences, FiniteSets, TLC

(***************************************************************************)
(* Bounds                                                                  *)
(***************************************************************************)
\* number of distinct device snapshots FakeArmonk() may report (a snapshot
\* fixes the reported value of every field)
NumReported == 2
\* number of cells the user re-executes by hand after Run All (interactive)
MaxReruns == 2
\* candidate fit results, in units of 1e-7, around the recorded amplitude
NumPiAmps == 3

(***************************************************************************)
(* Literals of the notebook                                                *)
(***************************************************************************)
num_exps == 64
drive_duration == 2048
drive_sigma == 256
meas_level == 1
shots == 512

(***************************************************************************)
(* Values                                                                  *)
(***************************************************************************)
Unbound == [kind |-> "unbound"]
Callable(n) == [kind |-> "callable", name |-> n]
IntV(v) == [kind |-> "int", v |-> v]
Float(r) == [kind |-> "float", repr |-> r]
StrV(s) == [kind |-> "str", s |-> s]
List(items) == [kind |-> "list", items |-> items]
Dict(f) == [kind |-> "dict", map |-> f]
\* the value a freshly constructed FakeArmonk reports for field f: snapshot r
Reported(f, r) == [kind |-> "reported", field |-> f, snapshot |-> r]
\* product 2 * np.pi * x of cell 11, kept symbolic
TwoPiTimes(x) == [kind |-> "product", factors |-> <<IntV(2), Float("np.pi"), x>>]

\* a float given in units of 1e-7 (the fitted amplitude)
Fixed(v) == [kind |-> "float", e7 |-> v]
\* the value an external call returns: it carries the call and a fresh id
Ret(c, id) == [kind |-> "object", fn |-> c.fn, args |-> c.args, id |-> id]
\* element i of a returned tuple
Item(t, i) == [kind |-> "item", index |-> i, of |-> t]

\* exact fractions n/d (d > 0) for the amplitudes
Rat(n, d) == [n |-> n, d |-> d]
RatEq(a, b) == a.n * b.d = b.n * a.d
RatLess(a, b) == a.n * b.d < b.n * a.d
RatSub(a, b) == Rat(a.n * b.d - b.n * a.d, a.d * b.d)

\* the number a numeric literal of the notebook denotes
NumOf(v) ==
    CASE v.kind = "int" -> v.v
      [] v.kind = "float" /\ v.repr = "1.0" -> 1

\* np.linspace(start, stop, num), endpoint included: start + k * step for
\* k = 0 .. num - 1 with step = (stop - start) / (num - 1), the last
\* element set to stop; in exact arithmetic
Linspace(start, stop, num) ==
    [k \in 1 .. num |->
        IF num = 1 THEN Rat(start, 1)
        ELSE IF k = num THEN Rat(stop, 1)
        ELSE Rat(start * (num - 1) + (k - 1) * (stop - start), num - 1)]

\* the elements of the array a linspace call returned
Elements(arr) ==
    Linspace(NumOf(arr.args.start), NumOf(arr.args.stop), NumOf(arr.args.num))

\* the device has one qubit (Armonk)
NumQubits == 1
Qubits == 0 .. NumQubits - 1

\* the indexed symbols a Hamiltonian string of cell 11 is made of
Sym(name, q) == [name |-> name, qubit |-> q]
Symbols(str) ==
    CASE str = "wq0*0.5*(I0-Z0)" -> {Sym("wq", 0), Sym("I", 0), Sym("Z", 0)}
      [] str = "omegad0*X0||D0" -> {Sym("omegad", 0), Sym("X", 0), Sym("D", 0)}
      [] str = "wq0" -> {Sym("wq", 0)}
      [] str = "omegad0" -> {Sym("omegad", 0)}
      [] str = "0" -> {Sym("", 0)}

NoCall == [fn |-> "none"]
NoObject == [kind |-> "none"]
NoError == [ename |-> "none"]
NoOutput ==
    [status |-> "none", count |-> 0, stream |-> <<>>, display |-> <<>>,
     error |-> NoError]

\* (mutation) the model is generated before the overrides
CodeCells_ModelFirst == <<3, 5, 7, 9, 13, 11, 15, 17, 19, 21, 22>>

\* code cells in notebook order, by index in the "cells" array
CodeCells == <<3, 5, 7, 9, 11, 13, 15, 17, 19, 21, 22>>
NumCells == Len(CodeCells)

Names ==
    {"np", "rabi_schedules", "RabiFitter", "DriveChannel", "assemble",
     "MeasLevel", "MeasReturnType", "PulseSimulator", "PulseSystemModel",
     "FakeArmonk", "armonk_backend", "freq_est", "drive_est", "armonk_model",
     "qubits", "num_exps", "drive_amps", "drive_duration", "drive_sigma",
     "drive_channels", "xdata", "backend_sim", "rabi_qobj", "sim_result",
     "rabi_fit", "pi_amp", "qiskit"}

VARIABLES
    ns,              \* kernel namespace: name -> value
    backend,         \* state of the FakeArmonk object bound to armonk_backend
    produced,        \* that object's state as FakeArmonk() returned it
    running,         \* cell being executed, 0 when the kernel is idle
    pc,              \* statement of that cell to execute next
    call,            \* external call in progress, NoCall when none
    tmp,             \* value of the sub-expression backend_sim.run(...)
    called,          \* external function -> number of calls entered
    returned,        \* external function -> number of calls returned
    raised,          \* external function -> number of calls that raised
    output,          \* cell -> its output area
    execution_count, \* the kernel's In[n] counter
    queue,           \* position in CodeCells of the next cell of Run All
    halted,          \* Run All stopped on an error
    reruns,          \* cells re-executed by hand so far
    objects          \* number of objects external calls have created

vars == <<ns, backend, produced, running, pc, call, tmp, called, returned,
          raised, output, execution_count, queue, halted, reruns, objects>>

(***************************************************************************)
(* The code cells: one record per statement, with the names it loads, the  *)
(* external function it calls (if any) and the name it calls directly.     *)
(***************************************************************************)
Import(line, binds) ==
    [line |-> line, kind |-> "import", reads |-> {}, fn |-> "none",
     callee |-> "none", binds |-> binds]
Assign(line, target, reads) ==
    [line |-> line, kind |-> "assign", reads |-> reads, fn |-> "none",
     callee |-> "none", binds |-> {target}]
SetAttr(line, reads) ==
    [line |-> line, kind |-> "setattr", reads |-> reads, fn |-> "none",
     callee |-> "none", binds |-> {}]
CallStmt(line, fn, callee, reads, binds) ==
    [line |-> line, kind |-> "call", reads |-> reads, fn |-> fn,
     callee |-> callee, binds |-> binds]
Show(line, kind, reads) ==
    [line |-> line, kind |-> kind, reads |-> reads, fn |-> "none",
     callee |-> "none", binds |-> {}]

Cell3 == << Import(42, {"np"}) >>

Cell5 ==
    << Import(58, {"rabi_schedules", "RabiFitter"}),
       Import(60, {"DriveChannel"}),
       Import(61, {"assemble"}),
       Import(62, {"MeasLevel", "MeasReturnType"}) >>

Cell7 ==
    << Import(79, {"PulseSimulator"}),
       Import(82, {"PulseSystemModel"}),
       Import(85, {"FakeArmonk"}) >>

Cell9 ==
    << CallStmt(107, "FakeArmonk", "FakeArmonk", {"FakeArmonk"},
                {"armonk_backend"}) >>

Cell11 ==
    << Assign(123, "freq_est", {}),
       Assign(124, "drive_est", {}),
       SetAttr(125, {"freq_est", "armonk_backend"}),
       SetAttr(126, {"armonk_backend"}),
       SetAttr(127, {"np", "freq_est", "drive_est", "armonk_backend"}),
       SetAttr(128, {"armonk_backend"}),
       SetAttr(129, {"armonk_backend"}) >>

Cell13 ==
    << CallStmt(145, "from_backend", "none",
                {"PulseSystemModel", "armonk_backend"}, {"armonk_model"}) >>

Cell15 ==
    << Assign(166, "qubits", {}),
       Assign(169, "num_exps", {}),
       CallStmt(170, "linspace", "none", {"np", "num_exps"}, {"drive_amps"}),
       Assign(173, "drive_duration", {}),
       Assign(174, "drive_sigma", {}),
       CallStmt(177, "DriveChannel", "DriveChannel", {"DriveChannel"},
                {"drive_channels"}),
       CallStmt(180, "rabi_schedules", "rabi_schedules",
                {"rabi_schedules", "drive_amps", "qubits", "drive_duration",
                 "drive_sigma", "drive_channels", "armonk_backend"},
                {"rabi_schedules", "xdata"}) >>

Cell17 ==
    << CallStmt(211, "PulseSimulator", "PulseSimulator", {"PulseSimulator"},
                {"backend_sim"}),
       CallStmt(213, "assemble", "assemble",
                {"assemble", "rabi_schedules", "backend_sim"},
                {"rabi_qobj"}) >>

\* (mutation) sim_result = backend_sim.run(...) without .result()
Cell19_NoResult ==
    << CallStmt(233, "run", "none",
                {"backend_sim", "rabi_qobj", "armonk_model"}, {}) >>

\* line 233 is one statement with two chained calls
Cell19 ==
    << CallStmt(233, "run", "none",
                {"backend_sim", "rabi_qobj", "armonk_model"}, {}),
       CallStmt(233, "result", "none", {}, {"sim_result"}) >>

\* (mutation) the fitted amplitude is not printed
Cell21_NoPrint ==
    << CallStmt(269, "RabiFitter", "RabiFitter",
                {"RabiFitter", "sim_result", "xdata", "qubits"},
                {"rabi_fit"}),
       CallStmt(272, "pi_amplitude", "none", {"rabi_fit"}, {"pi_amp"}),
       CallStmt(275, "plot", "none", {"rabi_fit"}, {}) >>

Cell21 ==
    << CallStmt(269, "RabiFitter", "RabiFitter",
                {"RabiFitter", "sim_result", "xdata", "qubits"},
                {"rabi_fit"}),
       CallStmt(272, "pi_amplitude", "none", {"rabi_fit"}, {"pi_amp"}),
       CallStmt(275, "plot", "none", {"rabi_fit"}, {}),
       Show(276, "print", {"pi_amp"}) >>

Cell22 ==
    << Import(311, {"qiskit"}),
       Show(312, "magic", {}),
       Show(313, "magic", {}) >>

Cell(c) ==
    CASE c = 3 -> Cell3 [] c = 5 -> Cell5 [] c = 7 -> Cell7
      [] c = 9 -> Cell9 [] c = 11 -> Cell11 [] c = 13 -> Cell13
      [] c = 15 -> Cell15 [] c = 17 -> Cell17 [] c = 19 -> Cell19
      [] c = 21 -> Cell21 [] c = 22 -> Cell22

ExternalFns ==
    {"FakeArmonk", "from_backend", "linspace", "DriveChannel",
     "rabi_schedules", "PulseSimulator", "assemble", "run", "result",
     "RabiFitter", "pi_amplitude", "plot"}

(***************************************************************************)
(* The mock backend object                                                 *)
(***************************************************************************)
\* the object FakeArmonk() returns, reporting snapshot r of the device
FakeArmonkState(r) ==
    [configuration |->
        [hamiltonian |-> [h_str |-> Reported("h_str", r),
                          vars |-> Reported("vars", r),
                          qub |-> Reported("qub", r)],
         dt |-> Reported("dt", r),
         meas_map |-> Reported("meas_map", r)],
     defaults |->
        [qubit_freq_est |-> Reported("qubit_freq_est", r),
         instruction_schedule_map |-> Reported("instruction_schedule_map", r)]]

\* armonk_backend.configuration() and armonk_backend.defaults(): the
\* object's own configuration and defaults, not copies of them
Configuration(b) == b.configuration
Defaults(b) == b.defaults
SetConfiguration(b, attr, v) == [b EXCEPT !.configuration[attr] = v]
SetHamiltonian(b, key, v) == [b EXCEPT !.configuration.hamiltonian[key] = v]
SetDefaults(b, attr, v) == [b EXCEPT !.defaults[attr] = v]

(***************************************************************************)
(* Statements that run inside the kernel                                   *)
(***************************************************************************)
Bound(n) == ns[n].kind # "unbound"
Stmt == Cell(running)[pc]
InCell == running # 0 /\ call = NoCall /\ pc <= Len(Cell(running))
Loadable == \A n \in Stmt.reads : Bound(n)
CalleeOk == Stmt.callee # "none" => ns[Stmt.callee].kind = "callable"

\* right-hand sides of the plain assignments
AssignValue(c, i) ==
    CASE c = 11 /\ i = 1 -> Float("4.97e9")
      [] c = 11 /\ i = 2 -> Float("6.35e7")
      [] c = 15 /\ i = 1 -> List(<<IntV(0)>>)
      [] c = 15 /\ i = 2 -> IntV(num_exps)
      [] c = 15 /\ i = 4 -> IntV(drive_duration)
      [] c = 15 /\ i = 5 -> IntV(drive_sigma)

\* (mutation) the sample duration is not overridden
Override_NoDt(b, i) ==
    CASE i = 3 -> SetDefaults(b, "qubit_freq_est", List(<<ns["freq_est"]>>))
      [] i = 4 -> SetHamiltonian(b, "h_str",
                     List(<<StrV("wq0*0.5*(I0-Z0)"), StrV("omegad0*X0||D0")>>))
      [] i = 5 -> SetHamiltonian(b, "vars",
                     Dict([wq0 |-> TwoPiTimes(ns["freq_est"]),
                           omegad0 |-> ns["drive_est"]]))
      [] i = 6 -> SetHamiltonian(b, "qub", Dict("0" :> IntV(2)))
      [] i = 7 -> b

\* (mutation) the coefficients keep the reported drive strength
Override_ReportedDrive(b, i) ==
    CASE i = 3 -> SetDefaults(b, "qubit_freq_est", List(<<ns["freq_est"]>>))
      [] i = 4 -> SetHamiltonian(b, "h_str",
                     List(<<StrV("wq0*0.5*(I0-Z0)"), StrV("omegad0*X0||D0")>>))
      [] i = 5 -> SetHamiltonian(b, "vars",
                     Dict([wq0 |-> TwoPiTimes(ns["freq_est"]),
                           omegad0 |-> Configuration(b).hamiltonian.vars]))
      [] i = 6 -> SetHamiltonian(b, "qub", Dict("0" :> IntV(2)))
      [] i = 7 -> SetConfiguration(b, "dt", Float("2.2222222222222221e-10"))

\* (mutation) the qubit dimensions are written over meas_map
Override_MeasMap(b, i) ==
    CASE i = 3 -> SetDefaults(b, "qubit_freq_est", List(<<ns["freq_est"]>>))
      [] i = 4 -> SetHamiltonian(b, "h_str",
                     List(<<StrV("wq0*0.5*(I0-Z0)"), StrV("omegad0*X0||D0")>>))
      [] i = 5 -> SetHamiltonian(b, "vars",
                     Dict([wq0 |-> TwoPiTimes(ns["freq_est"]),
                           omegad0 |-> ns["drive_est"]]))
      [] i = 6 -> SetConfiguration(SetHamiltonian(b, "qub", Dict("0" :> IntV(2))),
                                   "meas_map", Dict("0" :> IntV(2)))
      [] i = 7 -> SetConfiguration(b, "dt", Float("2.2222222222222221e-10"))

\* the attribute assignments of cell 11 on the object b
Override(b, i) ==
    CASE i = 3 -> SetDefaults(b, "qubit_freq_est", List(<<ns["freq_est"]>>))
      [] i = 4 -> SetHamiltonian(b, "h_str",
                     List(<<StrV("wq0*0.5*(I0-Z0)"), StrV("omegad0*X0||D0")>>))
      [] i = 5 -> SetHamiltonian(b, "vars",
                     Dict([wq0 |-> TwoPiTimes(ns["freq_est"]),
                           omegad0 |-> ns["drive_est"]]))
      [] i = 6 -> SetHamiltonian(b, "qub", Dict("0" :> IntV(2)))
      [] i = 7 -> SetConfiguration(b, "dt", Float("2.2222222222222221e-10"))

\* PulseSystemModel.from_backend(armonk_backend): what it reads of the object
FromBackendArgs ==
    [backend |-> ns["armonk_backend"],
     configuration |-> Configuration(backend),
     defaults |-> Defaults(backend)]

RabiSchedulesArgs ==
    [amp_list |-> ns["drive_amps"],
     qubits |-> ns["qubits"],
     pulse_width |-> ns["drive_duration"],
     pulse_sigma |-> ns["drive_sigma"],
     drives |-> ns["drive_channels"],
     inst_map |-> Defaults(backend).instruction_schedule_map,
     meas_map |-> Configuration(backend).meas_map]

\* (mutation) the schedules are assembled for the mock device backend
AssembleArgs_DeviceBackend ==
    [schedules |-> ns["rabi_schedules"],
     backend |-> ns["armonk_backend"],
     meas_level |-> IntV(meas_level),
     meas_return |-> StrV("avg"),
     shots |-> IntV(shots)]

AssembleArgs ==
    [schedules |-> ns["rabi_schedules"],
     backend |-> ns["backend_sim"],
     meas_level |-> IntV(meas_level),
     meas_return |-> StrV("avg"),
     shots |-> IntV(shots)]

RunArgs ==
    [self |-> ns["backend_sim"],
     qobj |-> ns["rabi_qobj"],
     system_model |-> ns["armonk_model"]]

RabiFitterArgs ==
    [backend_result |-> ns["sim_result"],
     xdata |-> ns["xdata"],
     qubits |-> ns["qubits"],
     fit_p0 |-> List(<<Float("1.5"), IntV(2), IntV(0), IntV(0)>>)]

\* (mutation) the sweep is one amplitude short
LinspaceArgs_OneFewer ==
    [start |-> IntV(0), stop |-> Float("1.0"), num |-> IntV(ns["num_exps"].v - 1)]

\* np.linspace(0, 1.0, num_exps)
LinspaceArgs == [start |-> IntV(0), stop |-> Float("1.0"), num |-> ns["num_exps"]]

\* DriveChannel(0)
DriveChannelArgs == [index |-> IntV(0)]

\* (mutation) the fit is asked for qubit 1
QubitIndexArgs_Qubit1 == [self |-> ns["rabi_fit"], qind |-> IntV(1)]

\* rabi_fit.pi_amplitude(0) and rabi_fit.plot(0)
QubitIndexArgs == [self |-> ns["rabi_fit"], qind |-> IntV(0)]

\* arguments of the external call of statement i of cell c
Args(c, i) ==
    CASE c = 9 -> [nargs |-> 0]
      [] c = 13 -> FromBackendArgs
      [] c = 15 /\ i = 3 -> LinspaceArgs
      [] c = 15 /\ i = 6 -> DriveChannelArgs
      [] c = 15 /\ i = 7 -> RabiSchedulesArgs
      [] c = 17 /\ i = 1 -> [nargs |-> 0]
      [] c = 17 /\ i = 2 -> AssembleArgs
      [] c = 19 /\ i = 1 -> RunArgs
      [] c = 19 /\ i = 2 -> [self |-> tmp]
      [] c = 21 /\ i = 1 -> RabiFitterArgs
      [] c = 21 /\ i = 2 -> QubitIndexArgs
      [] c = 21 /\ i = 3 -> QubitIndexArgs

\* (mutation) the returned pair is unpacked in the wrong order
UnpackSchedules_Swapped(r) ==
    [ns EXCEPT !["rabi_schedules"] = Item(r, 1), !["xdata"] = Item(r, 0)]

\* (mutation) the schedule list does not take the generator's name
UnpackSchedules_KeepFunction(r) ==
    [ns EXCEPT !["xdata"] = Item(r, 1)]

\* rabi_schedules, xdata = <the returned pair r>
UnpackSchedules(r) ==
    [ns EXCEPT !["rabi_schedules"] = Item(r, 0), !["xdata"] = Item(r, 1)]

\* the namespace after the external call of statement i of cell c has
\* returned r (amp: the amplitude the fit found)
BindResult(c, i, r, amp) ==
    CASE c = 9 -> [ns EXCEPT !["armonk_backend"] = r]
      [] c = 13 -> [ns EXCEPT !["armonk_model"] = r]
      [] c = 15 /\ i = 3 -> [ns EXCEPT !["drive_amps"] = r]
      [] c = 15 /\ i = 6 -> [ns EXCEPT !["drive_channels"] = List(<<r>>)]
      [] c = 15 /\ i = 7 -> UnpackSchedules(r)
      [] c = 17 /\ i = 1 -> [ns EXCEPT !["backend_sim"] = r]
      [] c = 17 /\ i = 2 -> [ns EXCEPT !["rabi_qobj"] = r]
      [] c = 19 /\ i = 1 -> ns
      [] c = 19 /\ i = 2 -> [ns EXCEPT !["sim_result"] = r]
      [] c = 21 /\ i = 1 -> [ns EXCEPT !["rabi_fit"] = r]
      [] c = 21 /\ i = 2 -> [ns EXCEPT !["pi_amp"] = Fixed(amp)]
      [] c = 21 /\ i = 3 -> ns

\* '%f' % x: x rounded to six decimals, in units of 1e-6
FormatF(x) == (x.e7 + 5) \div 10

\* candidate results of the fit, in units of 1e-7
PiAmps == {3484664 + 4 * k : k \in 0 .. NumPiAmps - 1}

(***************************************************************************)
(* Initial state: a fresh kernel, nothing executed                         *)
(***************************************************************************)
Init ==
    /\ ns = [n \in Names |-> Unbound]
    /\ backend = NoObject
    /\ produced = NoObject
    /\ running = 0
    /\ pc = 0
    /\ call = NoCall
    /\ tmp = Unbound
    /\ called = [f \in ExternalFns |-> 0]
    /\ returned = [f \in ExternalFns |-> 0]
    /\ raised = [f \in ExternalFns |-> 0]
    /\ output = [c \in {CodeCells[k] : k \in 1 .. NumCells} |-> NoOutput]
    /\ execution_count = 0
    /\ queue = 1
    /\ halted = FALSE
    /\ reruns = 0
    /\ objects = 0

(***************************************************************************)
(* The kernel                                                              *)
(***************************************************************************)
\* the kernel takes cell c: its output area is cleared and it gets In[n]
Begin(c) ==
    /\ running' = c
    /\ pc' = 1
    /\ execution_count' = execution_count + 1
    /\ output' = [output EXCEPT ![c] =
                     [NoOutput EXCEPT !.status = "busy",
                                      !.count = execution_count + 1]]
    /\ UNCHANGED <<ns, backend, produced, call, tmp, called, returned,
                   raised, objects>>

\* Run All: the next cell starts when the kernel is idle and no cell failed
RunAll ==
    /\ running = 0
    /\ ~halted
    /\ queue <= NumCells
    /\ Begin(CodeCells[queue])
    /\ queue' = queue + 1
    /\ UNCHANGED <<halted, reruns>>

\* (mutation) the exception is caught and the cell goes on
Abort_Swallowed(ename, fn) ==
    /\ output' = [output EXCEPT ![running].error =
                                    [ename |-> ename, fn |-> fn, stmt |-> pc]]
    /\ pc' = pc + 1
    /\ call' = NoCall
    /\ tmp' = Unbound
    /\ UNCHANGED <<ns, backend, produced, running, execution_count, queue,
                   halted, reruns, objects>>

\* an exception no cell catches: the cell stops, the traceback is its output
Abort(ename, fn) ==
    /\ output' = [output EXCEPT ![running].status = "error",
                                ![running].error =
                                    [ename |-> ename, fn |-> fn, stmt |-> pc]]
    /\ running' = 0
    /\ pc' = 0
    /\ call' = NoCall
    /\ tmp' = Unbound
    /\ halted' = (halted \/ reruns = 0)
    /\ UNCHANGED <<ns, backend, produced, execution_count, queue, reruns,
                   objects>>

ExecImport ==
    /\ InCell
    /\ Stmt.kind = "import"
    /\ ns' = [n \in Names |-> IF n \in Stmt.binds THEN Callable(n) ELSE ns[n]]
    /\ pc' = pc + 1
    /\ UNCHANGED <<backend, produced, running, call, tmp, called, returned,
                   raised, output, execution_count, queue, halted, reruns,
                   objects>>

ExecAssign ==
    /\ InCell
    /\ Stmt.kind = "assign"
    /\ Loadable
    /\ ns' = [n \in Names |-> IF n \in Stmt.binds
                                THEN AssignValue(running, pc) ELSE ns[n]]
    /\ pc' = pc + 1
    /\ UNCHANGED <<backend, produced, running, call, tmp, called, returned,
                   raised, output, execution_count, queue, halted, reruns,
                   objects>>

ExecSetAttr ==
    /\ InCell
    /\ Stmt.kind = "setattr"
    /\ Loadable
    /\ backend' = Override(backend, pc)
    /\ pc' = pc + 1
    /\ UNCHANGED <<ns, produced, running, call, tmp, called, returned,
                   raised, output, execution_count, queue, halted, reruns,
                   objects>>

\* print('Pi Amp: %f' % pi_amp)
ExecPrint ==
    /\ InCell
    /\ Stmt.kind = "print"
    /\ Loadable
    /\ output' = [output EXCEPT ![running].stream =
                     Append(@, [text |-> "Pi Amp: ",
                                micro |-> FormatF(ns["pi_amp"])])]
    /\ pc' = pc + 1
    /\ UNCHANGED <<ns, backend, produced, running, call, tmp, called,
                   returned, raised, execution_count, queue, halted, reruns,
                   objects>>

\* %qiskit_version_table and %qiskit_copyright
ExecMagic ==
    /\ InCell
    /\ Stmt.kind = "magic"
    /\ output' = [output EXCEPT ![running].display =
                     Append(@, [data |-> "text/html", line |-> Stmt.line])]
    /\ pc' = pc + 1
    /\ UNCHANGED <<ns, backend, produced, running, call, tmp, called,
                   returned, raised, execution_count, queue, halted, reruns,
                   objects>>

\* the kernel enters the external call of the statement and waits for it
Enter ==
    /\ InCell
    /\ Stmt.kind = "call"
    /\ Loadable
    /\ CalleeOk
    /\ call' = [fn |-> Stmt.fn, args |-> Args(running, pc)]
    /\ called' = [called EXCEPT ![Stmt.fn] = @ + 1]
    /\ UNCHANGED <<ns, backend, produced, running, pc, tmp, returned, raised,
                   output, execution_count, queue, halted, reruns, objects>>

\* the external call returns: its value is bound, the next statement is next
Return ==
    /\ running # 0
    /\ call # NoCall
    /\ \E r \in (IF call.fn = "FakeArmonk" THEN 1 .. NumReported ELSE {1}),
          amp \in (IF call.fn = "pi_amplitude" THEN PiAmps ELSE {0}) :
          LET ret == Ret(call, objects + 1) IN
          /\ ns' = BindResult(running, pc, ret, amp)
          /\ backend' = IF call.fn = "FakeArmonk"
                          THEN FakeArmonkState(r) ELSE backend
          /\ produced' = IF call.fn = "FakeArmonk"
                           THEN FakeArmonkState(r) ELSE produced
          /\ tmp' = IF call.fn = "run" THEN ret ELSE Unbound
    /\ output' = IF call.fn = "plot"
                   THEN [output EXCEPT ![running].display =
                            Append(@, [data |-> "image/png",
                                       line |-> Stmt.line])]
                   ELSE output
    /\ returned' = [returned EXCEPT ![call.fn] = @ + 1]
    /\ objects' = objects + 1
    /\ call' = NoCall
    /\ pc' = pc + 1
    /\ UNCHANGED <<running, called, raised, execution_count, queue, halted,
                   reruns>>

\* the external call fails: nothing in the notebook catches the exception
Raise ==
    /\ running # 0
    /\ call # NoCall
    /\ raised' = [raised EXCEPT ![call.fn] = @ + 1]
    /\ Abort("Exception", call.fn)
    /\ UNCHANGED <<called, returned>>

\* the last statement of the cell is done
EndCell ==
    /\ running # 0
    /\ call = NoCall
    /\ pc > Len(Cell(running))
    /\ output' = [output EXCEPT ![running].status = "ok"]
    /\ running' = 0
    /\ pc' = 0
    /\ UNCHANGED <<ns, backend, produced, call, tmp, called, returned,
                   raised, execution_count, queue, halted, reruns, objects>>

Next ==
    \/ RunAll
    \/ ExecImport
    \/ ExecAssign
    \/ ExecSetAttr
    \/ ExecPrint
    \/ ExecMagic
    \/ Enter
    \/ Return
    \/ Raise
    \/ EndCell

\* a top-to-bottom execution (Run All) of the notebook in a fresh kernel
Spec == Init /\ [][Next]_vars

\* the steps the kernel takes by itself, one statement after the other
KernelStep ==
    \/ RunAll
    \/ ExecImport
    \/ ExecAssign
    \/ ExecSetAttr
    \/ ExecPrint
    \/ ExecMagic
    \/ Enter
    \/ EndCell

\* Run All where the kernel keeps executing and every external call
\* comes back (by returning or by raising)
SpecLive ==
    /\ Init
    /\ [][Next]_vars
    /\ WF_vars(KernelStep)
    /\ WF_vars(Return \/ Raise)

(***************************************************************************)
(* Interactive use: after Run All the user re-executes cells by hand       *)
(***************************************************************************)
Rerun(c) ==
    /\ running = 0
    /\ halted \/ queue > NumCells
    /\ reruns < MaxReruns
    /\ Begin(c)
    /\ reruns' = reruns + 1
    /\ UNCHANGED <<queue, halted>>

\* a statement loads a name that is not bound
NameError ==
    /\ InCell
    /\ ~Loadable
    /\ Abort("NameError", "none")
    /\ UNCHANGED <<called, returned, raised>>

\* a statement calls a name whose value is not callable
TypeError ==
    /\ InCell
    /\ Stmt.kind = "call"
    /\ Loadable
    /\ ~CalleeOk
    /\ Abort("TypeError", Stmt.fn)
    /\ UNCHANGED <<called, returned, raised>>

NextInteractive ==
    \/ Next
    \/ \E k \in 1 .. NumCells : Rerun(CodeCells[k])
    \/ NameError
    \/ TypeError

SpecInteractive == Init /\ [][NextInteractive]_vars

(***************************************************************************)
(* Properties                                                              *)
(***************************************************************************)
\* the external calls of the seven steps, in the order of the notebook
StepFns ==
    <<"FakeArmonk", "from_backend", "rabi_schedules", "assemble", "run",
      "result", "RabiFitter", "pi_amplitude", "plot">>

\* Run All went through the last cell without an error
Completed == running = 0 /\ ~halted /\ queue > NumCells

\* the static values cell 11 assigns
StaticQubitFreqEst == List(<<Float("4.97e9")>>)
StaticHStr == List(<<StrV("wq0*0.5*(I0-Z0)"), StrV("omegad0*X0||D0")>>)
StaticVars ==
    Dict([wq0 |-> TwoPiTimes(Float("4.97e9")), omegad0 |-> Float("6.35e7")])
StaticQub == Dict("0" :> IntV(2))
StaticDt == Float("2.2222222222222221e-10")

\* the five overridden fields, as an argument record of from_backend has them
Overridden(a) ==
    /\ a.configuration.hamiltonian.h_str = StaticHStr
    /\ a.configuration.hamiltonian.vars = StaticVars
    /\ a.configuration.hamiltonian.qub = StaticQub
    /\ a.configuration.dt = StaticDt
    /\ a.defaults.qubit_freq_est = StaticQubitFreqEst

\* C1: in a top-to-bottom execution the seven steps happen in the order
\* FakeArmonk(), overrides, from_backend, rabi_schedules, assemble,
\* run/result, RabiFitter/pi_amplitude/plot: each is entered at most once,
\* only after the previous one has returned, and a run that goes through
\* has done each exactly once.
C1_StepOrder ==
    /\ \A f \in ExternalFns : called[f] <= 1 /\ returned[f] <= called[f]
    /\ \A i, j \in 1 .. Len(StepFns) :
          i < j /\ called[StepFns[j]] > 0 => returned[StepFns[i]] = 1
    /\ output[11].status # "none" => returned["FakeArmonk"] = 1
    /\ called["from_backend"] > 0 => output[11].status = "ok"
    /\ \A k \in 1 .. NumCells : output[CodeCells[k]].count \in {0, k}
    /\ Completed =>
          /\ \A i \in 1 .. Len(StepFns) : returned[StepFns[i]] = 1
          /\ \A k \in 1 .. NumCells : output[CodeCells[k]].status = "ok"

C1_Witness ==
    /\ Completed
    /\ returned["plot"] = 1
    /\ output[11].status = "ok"

\* C2: the overrides are applied after FakeArmonk() has returned and before
\* from_backend is called, and when from_backend reads the five overridden
\* fields through configuration() and defaults() each holds the static
\* value cell 11 assigned.
C2_OverridesVisible ==
    /\ output[11].status # "none" => Bound("armonk_backend")
    /\ call.fn = "from_backend" =>
          /\ output[11].status = "ok"
          /\ Overridden(call.args)
          /\ Configuration(backend) = call.args.configuration
          /\ Defaults(backend) = call.args.defaults

C2_Witness ==
    /\ call.fn = "from_backend"
    /\ produced.configuration.dt = Reported("dt", 2)

\* C3: the values of the five fields that go into model construction are
\* the notebook's static constants whatever snapshot the mock backend
\* reported, so two executions that differ only in the reported snapshot
\* build the model from identical values.
C3_Stabilized ==
    Bound("armonk_model") =>
        /\ Overridden(ns["armonk_model"].args)
        /\ \A r \in 1 .. NumReported :
              /\ ns["armonk_model"].args.configuration.hamiltonian
                    # FakeArmonkState(r).configuration.hamiltonian
              /\ ns["armonk_model"].args.configuration.dt
                    # FakeArmonkState(r).configuration.dt
              /\ ns["armonk_model"].args.defaults.qubit_freq_est
                    # FakeArmonkState(r).defaults.qubit_freq_est

C3_Witness ==
    /\ Bound("armonk_model")
    /\ produced = FakeArmonkState(NumReported)
    /\ produced # FakeArmonkState(1)

\* the value name n had before cell c first assigned it in a Run All
Before(n) == IF n = "rabi_schedules" THEN Callable(n) ELSE Unbound

\* C4: a failing external call is not handled: the exception ends the cell
\* and is the cell's output, Run All stops, the call is not entered again
\* and the names the failed statement would have bound keep the value they
\* had (no fallback value is bound).
C4_NoErrorHandling ==
    \A f \in ExternalFns :
        raised[f] > 0 =>
            /\ running = 0
            /\ halted
            /\ called[f] = 1
            /\ returned[f] = 0
            /\ \E c \in DOMAIN output :
                  /\ output[c].status = "error"
                  /\ output[c].error.ename = "Exception"
                  /\ output[c].error.fn = f
                  /\ \A n \in Cell(c)[output[c].error.stmt].binds :
                        ns[n] = Before(n)
                  /\ \A d \in DOMAIN output :
                        output[d].count <= output[c].count

C4_Witness ==
    /\ raised["rabi_schedules"] = 1
    /\ output[15].status = "error"

\* C5: execution is sequential: a cell in progress is not left for another
\* cell, an external call in progress ends before anything else happens
\* and belongs to the cell in progress, and when the fitting cell (21) is
\* in progress run(...).result() has returned and sim_result is its result.
C5_Sequential ==
    /\ [][ /\ running # 0 => running' \in {running, 0}
           /\ call # NoCall => call' = NoCall /\ running # 0
           /\ call' # NoCall => running' = running /\ running # 0 ]_vars
    /\ [](running = 21 =>
            /\ returned["run"] = 1
            /\ returned["result"] = 1
            /\ ns["sim_result"].kind = "object"
            /\ ns["sim_result"].fn = "result"
            /\ call.fn \notin {"run", "result"})

C5_Witness ==
    /\ running = 21
    /\ call.fn = "RabiFitter"

\* C6: the backend given to assemble is the PulseSimulator instance bound to
\* backend_sim, run is invoked on that same instance, the job given to run
\* is the object that assemble call returned (meas_level 1, meas_return
\* 'avg', shots 512) and the model given to run is the one from_backend
\* returned.
C6_SimulatorIsBackend ==
    call.fn = "run" =>
        LET job == call.args.qobj IN
        /\ call.args.self = ns["backend_sim"]
        /\ call.args.self.fn = "PulseSimulator"
        /\ job = ns["rabi_qobj"]
        /\ job.fn = "assemble"
        /\ job.args.backend = call.args.self
        /\ job.args.backend.id = call.args.self.id
        /\ job.args.meas_level = IntV(1)
        /\ job.args.meas_return = StrV("avg")
        /\ job.args.shots = IntV(512)
        /\ call.args.system_model = ns["armonk_model"]
        /\ call.args.system_model.fn = "from_backend"

C6_Witness ==
    /\ call.fn = "run"
    /\ returned["assemble"] = 1

\* C7: the notebook assigns only the five overridden fields of the backend:
\* before the override cell the object is as FakeArmonk() produced it, the
\* other fields (instruction_schedule_map, meas_map) always are, they are
\* what rabi_schedules is given, and once the override cell is done no
\* step changes the backend.
C7_Frame ==
    /\ [](backend # NoObject =>
            /\ output[11].status = "none" => backend = produced
            /\ Configuration(backend).meas_map
                  = Configuration(produced).meas_map
            /\ Defaults(backend).instruction_schedule_map
                  = Defaults(produced).instruction_schedule_map
            /\ DOMAIN Configuration(backend) = DOMAIN Configuration(produced)
            /\ DOMAIN Configuration(backend).hamiltonian
                  = DOMAIN Configuration(produced).hamiltonian
            /\ DOMAIN Defaults(backend) = DOMAIN Defaults(produced)
            /\ output[11].status = "ok" =>
                  Overridden([configuration |-> Configuration(backend),
                              defaults |-> Defaults(backend)])
            /\ call.fn = "rabi_schedules" =>
                  /\ call.args.meas_map = Configuration(produced).meas_map
                  /\ call.args.inst_map
                        = Defaults(produced).instruction_schedule_map)
    /\ [][output[11].status = "ok" => backend' = backend]_vars

C7_Witness ==
    /\ call.fn = "rabi_schedules"
    /\ output[11].status = "ok"
    /\ backend # produced

\* C9: in a top-to-bottom execution every name a statement loads is bound
\* (and callable where it is called), assemble gets the schedule list of the
\* rabi_schedules call, run gets rabi_qobj and armonk_model, and RabiFitter
\* gets sim_result of that run, the xdata of the same rabi_schedules call
\* and the qubits list that call was given.
C9_Dataflow ==
    /\ InCell => Loadable /\ CalleeOk
    /\ call.fn = "assemble" =>
          /\ call.args.schedules = ns["rabi_schedules"]
          /\ call.args.schedules.kind = "item"
          /\ call.args.schedules.index = 0
          /\ call.args.schedules.of.fn = "rabi_schedules"
    /\ call.fn = "run" =>
          /\ call.args.qobj = ns["rabi_qobj"]
          /\ call.args.system_model = ns["armonk_model"]
    /\ call.fn = "RabiFitter" =>
          LET res == call.args.backend_result
              sched == res.args.self.args.qobj.args.schedules IN
          /\ res = ns["sim_result"]
          /\ res.fn = "result"
          /\ res.args.self.fn = "run"
          /\ call.args.xdata = ns["xdata"]
          /\ call.args.xdata = Item(sched.of, 1)
          /\ call.args.qubits = ns["qubits"]
          /\ call.args.qubits = sched.of.args.qubits

C9_Witness ==
    /\ call.fn = "RabiFitter"
    /\ ns["xdata"].of.fn = "rabi_schedules"

\* C10: cell 15 rebinds rabi_schedules from the imported function to the
\* returned schedule list; while the name is not callable an execution of
\* cell 15 cannot get past the call: it ends in a TypeError and leaves
\* rabi_schedules and xdata as they were; executing the import cell (5)
\* binds the name to the function again.
C10_NotReExecutable ==
    /\ [][ call.fn = "rabi_schedules" /\ returned' # returned =>
              /\ ns["rabi_schedules"] = Callable("rabi_schedules")
              /\ ns'["rabi_schedules"].kind = "item"
              /\ ns'["rabi_schedules"].kind # "callable"
              /\ ns'["xdata"].of = ns'["rabi_schedules"].of ]_vars
    /\ [][ running = 15 /\ ns["rabi_schedules"].kind # "callable" /\ pc <= 7 =>
              /\ pc' <= 7
              /\ call'.fn # "rabi_schedules"
              /\ ns'["rabi_schedules"] = ns["rabi_schedules"]
              /\ ns'["xdata"] = ns["xdata"]
              /\ running' = 0 =>
                    /\ output'[15].status = "error"
                    /\ pc = 7 /\ call = NoCall =>
                          output'[15].error.ename = "TypeError" ]_vars
    /\ [][ running = 5 /\ pc = 1 /\ pc' = 2 =>
              ns'["rabi_schedules"] = Callable("rabi_schedules") ]_vars

\* cell 15 was re-executed after a successful execution and failed
C10_Witness ==
    /\ output[15].status = "error"
    /\ output[15].error.ename = "TypeError"
    /\ ns["rabi_schedules"].kind = "item"
    /\ ns["xdata"].kind = "item"
    /\ reruns >= 1

\* reachable as well: the import cell was re-executed after that failure
\* and rabi_schedules is the function again
C10_Restored ==
    /\ output[15].status = "error"
    /\ output[15].error.ename = "TypeError"
    /\ ns["rabi_schedules"] = Callable("rabi_schedules")
    /\ ns["xdata"].kind = "item"

\* the items of a list value, as a set
Members(l) == {l.items[k] : k \in 1 .. Len(l.items)}

\* C11: every qubit index the notebook uses is qubit 0 of the one-qubit
\* device: qubits is [0], the only drive channel is DriveChannel(0), the
\* overridden Hamiltonian names only qubit 0 and has one frequency
\* estimate, and the index given to pi_amplitude and plot is a member of
\* the qubits list RabiFitter was given.
C11_SingleQubit ==
    /\ Bound("qubits") =>
          /\ ns["qubits"] = List(<<IntV(0)>>)
          /\ \A q \in Members(ns["qubits"]) : q.v \in Qubits
    /\ Bound("drive_channels") =>
          /\ Len(ns["drive_channels"].items) = NumQubits
          /\ \A d \in Members(ns["drive_channels"]) :
                d.fn = "DriveChannel" /\ d.args.index = IntV(0)
    /\ output[11].status = "ok" =>
          LET h == Configuration(backend).hamiltonian IN
          /\ \A t \in Members(h.h_str) :
                \A y \in Symbols(t.s) : y.qubit \in Qubits
          /\ \A key \in DOMAIN h.vars.map :
                \A y \in Symbols(key) : y.qubit \in Qubits
          /\ DOMAIN h.qub.map = {"0"}
          /\ \A key \in DOMAIN h.qub.map :
                \A y \in Symbols(key) : y.qubit \in Qubits
          /\ Len(Defaults(backend).qubit_freq_est.items) = NumQubits
    /\ call.fn = "rabi_schedules" =>
          /\ call.args.qubits = List(<<IntV(0)>>)
          /\ Len(call.args.drives.items) = Len(call.args.qubits.items)
    /\ call.fn \in {"pi_amplitude", "plot"} =>
          /\ call.args.qind = IntV(0)
          /\ call.args.self.fn = "RabiFitter"
          /\ call.args.qind \in Members(call.args.self.args.qubits)

C11_Witness ==
    /\ call.fn = "plot"
    /\ output[11].status = "ok"
    /\ Bound("drive_channels")

\* the final print of cell 21 has written the fitted amplitude
Printed == Len(output[21].stream) > 0

\* C12: a top-to-bottom execution in which no external call raises (Run
\* All is never halted) terminates: it reaches the final print and goes
\* through the last cell; pi_amp is bound by exactly one pi_amplitude call,
\* no call and no cell is executed twice and no statement is gone back to.
C12_Terminates ==
    /\ <>(halted \/ (Completed /\ Printed))
    /\ [](Printed =>
            /\ returned["pi_amplitude"] = 1
            /\ Bound("pi_amp")
            /\ Len(output[21].stream) = 1)
    /\ [](Bound("pi_amp") <=> returned["pi_amplitude"] = 1)
    /\ [](\A f \in ExternalFns : called[f] <= 1)
    /\ [](execution_count <= NumCells)
    /\ [][running # 0 /\ running' = running => pc' >= pc]_vars
    /\ [][Completed => UNCHANGED vars]_vars

C12_Witness ==
    /\ Completed
    /\ Printed
    /\ execution_count = NumCells
    /\ \A f \in ExternalFns : raised[f] = 0

====
